---- MODULE Spec2Model ----
(***************************************************************************)
(* time2review (main.go): paginated fetch of the closed pull requests of   *)
(* one repository, enrichment of every merged pull request with comments,  *)
(* commits and reviews, aggregate statistics, and the printed report.      *)
(*                                                                         *)
(* Modelling conventions                                                   *)
(*  - a time.Time is an integer number of hours counted from a Monday      *)
(*    00:00 UTC; NoTime is the nil *time.Time; a time.Duration is a        *)
(*    difference of two such integers;                                     *)
(*  - a login is a sequence of tokens, so that strings.HasSuffix is a real *)
(*    suffix test; <<>> is the empty string;                               *)
(*  - the GitHub API is the environment: each call returns an error or a   *)
(*    value drawn from a bounded set;                                      *)
(*  - a Go map is a function; ranging over it may visit its keys in any    *)
(*    order.                                                               *)
(***************************************************************************)
EXTENDS Integers, Sequences, FiniteSets, TLC

VARIABLES
    pc,        \* position of the program: "fetch", "trim", "enrich", "print", "done", "exit", or the name of a pure-function harness
    numPRs,    \* main: numPRs
    opt,       \* main: opt (PerPage, Page)
    allPRs,    \* main: allPRs / getMergeTimes: prs
    idx,       \* getMergeTimes: number of elements of prs the range loop has consumed
    prInfos,   \* getMergeTimes: prInfos / the aggregates: prData
    out,       \* standard output, one entry per printed line
    calls,     \* history: every API call issued, in order
    pages,     \* history: every answer to PullRequests.List, in order
    resp,      \* history: for each consumed element of prs, what the three fetches answered
    clock,     \* the time.Time handed to getDayOfWeekAndTimeOfDay
    agg        \* the value returned by the function called last

vars == <<pc, numPRs, opt, allPRs, idx, prInfos, out, calls, pages, resp, clock, agg>>

(***************************************************************************)
(* Bounds of the model.                                                    *)
(***************************************************************************)
MaxN == 3          \* numPRs ranges over 0..MaxN
MaxRepo == 4       \* the repository answers with at most MaxRepo pull requests over all pages
MaxPRs == 3        \* longest list handed directly to getMergeTimes
MaxComments == 3   \* longest comment list of one pull request
MaxRecords == 3    \* longest record list handed to an aggregate
MaxClock == 167    \* getDayOfWeekAndTimeOfDay is applied to the hours 0..MaxClock

(***************************************************************************)
(* Values.                                                                 *)
(***************************************************************************)
NoTime == -1
None == [fn |-> "none"]

Min(a, b) == IF a < b THEN a ELSE b

\* Logins: alice, bob, bot-x[bot], and [bot]y (the marker not at the end).
alice == <<"alice">>
bob == <<"bob">>
botx == <<"bot-x", "[bot]">>
boty == <<"[bot]", "y">>
botSuffix == <<"[bot]">>

\* strings.HasSuffix(s, suffix)
HasSuffix(s, suffix) ==
    /\ Len(s) >= Len(suffix)
    /\ SubSeq(s, Len(s) - Len(suffix) + 1, Len(s)) = suffix

\* t.Weekday().String()
WeekdayNames == <<"Monday", "Tuesday", "Wednesday", "Thursday", "Friday", "Saturday", "Sunday">>
Weekday(t) == WeekdayNames[((t \div 24) % 7) + 1]

\* t.Hour()
Hour(t) == t % 24

getDayOfWeekAndTimeOfDay_BoundaryIncl(t) ==
    LET hour == Hour(t) IN
    [dayOfWeek |-> Weekday(t),
     timeOfDay |->
        IF hour <= 6 THEN "after midnight [UTC 00:00-06:00)"
        ELSE IF hour <= 12 THEN "morning [UTC 06:00-12:00)"
        ELSE IF hour <= 17 THEN "afternoon [UTC 12:00-17:00)"
        ELSE IF hour <= 20 THEN "evening [UTC 17:00-20:00)"
        ELSE "night [UTC 20:00-00:00)"]

getDayOfWeekAndTimeOfDay(t) ==
    LET hour == Hour(t) IN
    [dayOfWeek |-> Weekday(t),
     timeOfDay |->
        IF hour < 6 THEN "after midnight [UTC 00:00-06:00)"
        ELSE IF hour < 12 THEN "morning [UTC 06:00-12:00)"
        ELSE IF hour < 17 THEN "afternoon [UTC 12:00-17:00)"
        ELSE IF hour < 20 THEN "evening [UTC 17:00-20:00)"
        ELSE "night [UTC 20:00-00:00)"]

(***************************************************************************)
(* getMergeTimes.                                                          *)
(***************************************************************************)
\* var prInfo PRInfo: the zero value
ZeroPRInfo ==
    [Number |-> 0, Creator |-> <<>>,
     CreationDayOfWeek |-> "", CreationTimeOfDay |-> "",
     FirstResponder |-> <<>>, FirstResponseDayOfWeek |-> "", FirstResponseTimeOfDay |-> "",
     TimeToFirstResponse |-> 0,
     FirstHumanResponder |-> <<>>, FirstHumanResponseDayOfWeek |-> "", FirstHumanResponseTimeOfDay |-> "",
     TimeToFirstHumanResponse |-> 0,
     MergeDayOfWeek |-> "", MergeTimeOfDay |-> "",
     Duration |-> 0, Commits |-> 0, Commenters |-> <<>>, Reviewers |-> <<>>]

\* lines 102-107: the fields set from the pull request alone
InitPRInfo(pr) ==
    LET c == getDayOfWeekAndTimeOfDay(pr.CreatedAt) IN
    [ZeroPRInfo EXCEPT
        !.Number = pr.Number,
        !.Creator = pr.Creator,
        !.CreationDayOfWeek = c.dayOfWeek,
        !.CreationTimeOfDay = c.timeOfDay,
        !.Duration = pr.MergedAt - pr.CreatedAt]

\* lines 118-122
SetFirstResponse(info, pr, comment) ==
    IF info.FirstResponder = <<>>
    THEN LET d == getDayOfWeekAndTimeOfDay(comment.CreatedAt) IN
         [info EXCEPT
            !.TimeToFirstResponse = comment.CreatedAt - pr.CreatedAt,
            !.FirstResponseDayOfWeek = d.dayOfWeek,
            !.FirstResponseTimeOfDay = d.timeOfDay,
            !.FirstResponder = comment.Login]
    ELSE info

\* lines 124-126
SetFirstHumanResponse(info, pr, comment) ==
    LET d == getDayOfWeekAndTimeOfDay(comment.CreatedAt) IN
    [info EXCEPT
        !.TimeToFirstHumanResponse = comment.CreatedAt - pr.CreatedAt,
        !.FirstHumanResponseDayOfWeek = d.dayOfWeek,
        !.FirstHumanResponseTimeOfDay = d.timeOfDay,
        !.FirstHumanResponder = comment.Login]

RECURSIVE ScanComments_NoBotTest(_, _, _, _)
ScanComments_NoBotTest(info, pr, comments, k) ==
    IF k > Len(comments) THEN info
    ELSE LET i1 == SetFirstResponse(info, pr, comments[k]) IN
         IF i1.FirstHumanResponder = <<>>
         THEN SetFirstHumanResponse(i1, pr, comments[k])
         ELSE ScanComments_NoBotTest(i1, pr, comments, k + 1)

\* lines 117-129: the scan for the first response and the first human response,
\* from comment k on; the break ends it at the first human comment
RECURSIVE ScanComments(_, _, _, _)
ScanComments(info, pr, comments, k) ==
    IF k > Len(comments) THEN info
    ELSE LET i1 == SetFirstResponse(info, pr, comments[k]) IN
         IF ~HasSuffix(comments[k].Login, botSuffix) /\ i1.FirstHumanResponder = <<>>
         THEN SetFirstHumanResponse(i1, pr, comments[k])
         ELSE ScanComments(i1, pr, comments, k + 1)

RECURSIVE CollectLogins_Dedup(_)
CollectLogins_Dedup(items) ==
    IF items = <<>> THEN <<>>
    ELSE LET rest == CollectLogins_Dedup(SubSeq(items, 1, Len(items) - 1))
             last == items[Len(items)].Login
         IN IF ~HasSuffix(last, botSuffix) /\ \A i \in 1..Len(rest) : rest[i] # last
            THEN Append(rest, last) ELSE rest

\* lines 140-144 and 154-158: append the login of every item whose login has not the bot suffix
RECURSIVE CollectLogins(_)
CollectLogins(items) ==
    IF items = <<>> THEN <<>>
    ELSE LET rest == CollectLogins(SubSeq(items, 1, Len(items) - 1))
             last == items[Len(items)].Login
         IN IF ~HasSuffix(last, botSuffix) THEN Append(rest, last) ELSE rest

BuildPRInfo_CommentersFromScan(pr, comments, commits, reviews) ==
    LET i1 == ScanComments(InitPRInfo(pr), pr, comments, 1)
        m == getDayOfWeekAndTimeOfDay(pr.MergedAt)
        stop == {k \in 1..Len(comments) : ~HasSuffix(comments[k].Login, botSuffix)}
        scanned == IF stop = {} THEN comments
                   ELSE SubSeq(comments, 1, CHOOSE k \in stop : \A j \in stop : k <= j)
    IN [i1 EXCEPT
          !.Commits = commits,
          !.Commenters = CollectLogins(scanned),
          !.Reviewers = CollectLogins(reviews),
          !.MergeDayOfWeek = m.dayOfWeek,
          !.MergeTimeOfDay = m.timeOfDay]

\* lines 101-160: the record of one pull request whose three fetches succeeded
BuildPRInfo(pr, comments, commits, reviews) ==
    LET i1 == ScanComments(InitPRInfo(pr), pr, comments, 1)
        m == getDayOfWeekAndTimeOfDay(pr.MergedAt)
    IN [i1 EXCEPT
          !.Commits = commits,
          !.Commenters = CollectLogins(comments),
          !.Reviewers = CollectLogins(reviews),
          !.MergeDayOfWeek = m.dayOfWeek,
          !.MergeTimeOfDay = m.timeOfDay]

(***************************************************************************)
(* The environment: what the GitHub API may answer.                        *)
(***************************************************************************)
SeqsUpTo(S, n) == UNION {[1..k -> S] : k \in 0..n}

PullRequest(number, creator, createdAt, mergedAt) ==
    [Number |-> number, Creator |-> creator, CreatedAt |-> createdAt, MergedAt |-> mergedAt]

Comment(login, createdAt) == [Login |-> login, CreatedAt |-> createdAt]

Review(login) == [Login |-> login]

\* a pull request without its number: creator, creation instant, merge instant
Shape(creator, createdAt, mergedAt) ==
    [Creator |-> creator, CreatedAt |-> createdAt, MergedAt |-> mergedAt]

WithNumber(shape, number) ==
    PullRequest(number, shape.Creator, shape.CreatedAt, shape.MergedAt)

\* the lists of pull requests built from the shapes, numbered from first + 1 on
NumberedLists(shapes, first, maxLen) ==
    {[i \in 1..Len(s) |-> WithNumber(s[i], first + i)] : s \in SeqsUpTo(shapes, maxLen)}

\* answers of the three per-PR calls: comment lists, commit counts, review lists
EnvMain ==
    [comments |-> {<<Comment(botx, 11), Comment(alice, 13)>>},
     commits |-> {1},
     reviews |-> {<<Review(bob)>>}]

EnvEnrich ==
    [comments |-> {<<>>, <<Comment(botx, 11)>>, <<Comment(botx, 11), Comment(alice, 13)>>},
     commits |-> {2},
     reviews |-> {<<Review(bob), Review(botx)>>}]

EnvRecord ==
    [comments |-> SeqsUpTo({Comment(l, t) : l \in {alice, bob, botx, boty}, t \in {35, 50}}, MaxComments),
     commits |-> {0, 2},
     reviews |-> {<<>>, <<Review(bob), Review(botx), Review(bob)>>}]

ShapesMain == {Shape(alice, 10, 30), Shape(alice, 10, NoTime)}

ShapesEnrich ==
    {Shape(c, t[1], t[2]) : c \in {alice, bob}, t \in {<<10, 30>>, <<NoTime, 30>>, <<10, NoTime>>}}

ShapesRecord == {Shape(alice, 10, 60), Shape(bob, 29, 100)}

(***************************************************************************)
(* getMergeTimes: one iteration of the range loop over prs.                *)
(***************************************************************************)
HasBothInstants_MergedOnly(pr) == pr.MergedAt # NoTime

\* line 100
HasBothInstants(pr) == pr.MergedAt # NoTime /\ pr.CreatedAt # NoTime

ApiCall(api, arg) == [api |-> api, arg |-> arg]

ErrorLine(what, number) == [kind |-> "error", what |-> what, Number |-> number]

Answer(failed, comments, commits, reviews) ==
    [skipped |-> FALSE, failed |-> failed, comments |-> comments, commits |-> commits, reviews |-> reviews]

Skipped == [skipped |-> TRUE, failed |-> "none", comments |-> <<>>, commits |-> 0, reviews |-> <<>>]

\* lines 110-114: ListComments fails: print, continue
CommentsFail(pr) ==
    /\ calls' = Append(calls, ApiCall("ListComments", pr.Number))
    /\ out' = Append(out, ErrorLine("comments", pr.Number))
    /\ resp' = Append(resp, Answer("comments", <<>>, 0, <<>>))
    /\ prInfos' = prInfos

\* lines 132-136: ListCommits fails: print, continue
CommitsFail(pr, comments) ==
    /\ calls' = calls \o <<ApiCall("ListComments", pr.Number), ApiCall("ListCommits", pr.Number)>>
    /\ out' = Append(out, ErrorLine("commits", pr.Number))
    /\ resp' = Append(resp, Answer("commits", comments, 0, <<>>))
    /\ prInfos' = prInfos

ReviewsFail_AppendPartial(pr, comments, commits) ==
    /\ calls' = calls \o <<ApiCall("ListComments", pr.Number), ApiCall("ListCommits", pr.Number),
                          ApiCall("ListReviews", pr.Number)>>
    /\ out' = Append(out, ErrorLine("reviews", pr.Number))
    /\ resp' = Append(resp, Answer("reviews", comments, commits, <<>>))
    /\ prInfos' = Append(prInfos, BuildPRInfo(pr, comments, commits, <<>>))

\* lines 147-151: ListReviews fails: print, continue
ReviewsFail(pr, comments, commits) ==
    /\ calls' = calls \o <<ApiCall("ListComments", pr.Number), ApiCall("ListCommits", pr.Number),
                          ApiCall("ListReviews", pr.Number)>>
    /\ out' = Append(out, ErrorLine("reviews", pr.Number))
    /\ resp' = Append(resp, Answer("reviews", comments, commits, <<>>))
    /\ prInfos' = prInfos

\* lines 101-162: the three fetches succeed: the record is appended
AllFetched(pr, comments, commits, reviews) ==
    /\ calls' = calls \o <<ApiCall("ListComments", pr.Number), ApiCall("ListCommits", pr.Number),
                          ApiCall("ListReviews", pr.Number)>>
    /\ out' = out
    /\ resp' = Append(resp, Answer("none", comments, commits, reviews))
    /\ prInfos' = Append(prInfos, BuildPRInfo(pr, comments, commits, reviews))

\* lines 99-164: the body of the loop for prs[idx+1], under the answers of env
GetMergeTimesIter(env) ==
    /\ pc = "enrich"
    /\ idx < Len(allPRs)
    /\ idx' = idx + 1
    /\ pc' = pc
    /\ UNCHANGED <<numPRs, opt, allPRs, pages, clock, agg>>
    /\ LET pr == allPRs[idx + 1] IN
       IF ~HasBothInstants(pr)
       THEN /\ resp' = Append(resp, Skipped)
            /\ UNCHANGED <<calls, out, prInfos>>
       ELSE \/ CommentsFail(pr)
            \/ \E comments \in env.comments : CommitsFail(pr, comments)
            \/ \E comments \in env.comments, commits \in env.commits :
                  ReviewsFail(pr, comments, commits)
            \/ \E comments \in env.comments, commits \in env.commits, reviews \in env.reviews :
                  AllFetched(pr, comments, commits, reviews)

\* line 166 and line 50: the loop is over, prInfos is returned to main
GetMergeTimesReturn ==
    /\ pc = "enrich"
    /\ idx = Len(allPRs)
    /\ pc' = "print"
    /\ UNCHANGED <<numPRs, opt, allPRs, idx, prInfos, out, calls, pages, resp, clock, agg>>

(***************************************************************************)
(* printPRInfos: the labels of the aggregate lines, the separator, and one *)
(* line per record.                                                        *)
(***************************************************************************)
AggregateLabels ==
    <<"Average merge time", "Average time to first human response",
      "Average time to first bot response", "Average number of comments per PR",
      "Average number of reviewers per PR", "Average number of commits per PR",
      "Day of the week with the most PRs created", "Time of the day with the most PRs created",
      "Day of the week with the most PRs merged", "Time of the day with the most PRs merged",
      "Day of the week with the most first human responses",
      "Time of the day with the most first human responses",
      "Day of the week with the most PR reviews", "Time of the day with the most PR reviews",
      "Names of all developers who created, merged, reviewed, commented on, or approved PRs",
      "Top reviewer", "Top commenter", "Top creator", "Top first human responder",
      "Top first responder", "Top merger">>

AggregateLines == [i \in 1..Len(AggregateLabels) |-> [kind |-> "aggregate", label |-> AggregateLabels[i]]]

RecordLines(prData) == [i \in 1..Len(prData) |-> [kind |-> "pr", Number |-> prData[i].Number]]

\* lines 186-262
printPRInfos ==
    /\ pc = "print"
    /\ out' = out \o AggregateLines \o <<[kind |-> "separator"]>> \o RecordLines(prInfos)
    /\ pc' = "done"
    /\ UNCHANGED <<numPRs, opt, allPRs, idx, prInfos, calls, pages, resp, clock, agg>>

(***************************************************************************)
(* main: the fetch loop and the trim.                                      *)
(***************************************************************************)
\* line 60
DefaultPerPage == 100

\* lines 59-70
getPullRequestListOptions(n) ==
    [PerPage |-> IF n > 0 /\ n < DefaultPerPage THEN n ELSE DefaultPerPage, Page |-> 0]

\* the page the server takes a request for opt.Page to mean
CurrentPage == IF opt.Page = 0 THEN 1 ELSE opt.Page

\* what a page may hold: at most PerPage pull requests, at most MaxRepo over all pages
PageContents == NumberedLists(ShapesMain, Len(allPRs), Min(opt.PerPage, MaxRepo - Len(allPRs)))

\* resp.NextPage: 0, or the next page while the repository may hold more
NextPages(prs) ==
    {0} \cup (IF Len(prs) >= 1 /\ Len(allPRs) + Len(prs) < MaxRepo THEN {CurrentPage + 1} ELSE {})

PageAnswer(err, prs, next) == [err |-> err, prs |-> prs, NextPage |-> next]

\* line 38
LoopEnds(n, accumulated, next) == (n > 0 /\ Len(accumulated) >= n) \/ next = 0

FetchFails_Break ==
    /\ pages' = Append(pages, PageAnswer(TRUE, <<>>, 0))
    /\ out' = Append(out, [kind |-> "error", what |-> "pull requests"])
    /\ pc' = "trim"
    /\ UNCHANGED <<opt, allPRs>>

\* lines 33-36: the page request fails: print, return from main
FetchFails ==
    /\ pages' = Append(pages, PageAnswer(TRUE, <<>>, 0))
    /\ out' = Append(out, [kind |-> "error", what |-> "pull requests"])
    /\ pc' = "exit"
    /\ UNCHANGED <<opt, allPRs>>

\* lines 37-41: the page is appended; break, or ask for the next page
FetchSucceeds(prs, next) ==
    /\ pages' = Append(pages, PageAnswer(FALSE, prs, next))
    /\ allPRs' = allPRs \o prs
    /\ out' = out
    /\ IF LoopEnds(numPRs, allPRs \o prs, next)
       THEN pc' = "trim" /\ opt' = opt
       ELSE pc' = "fetch" /\ opt' = [opt EXCEPT !.Page = next]

\* lines 31-42: one iteration of the fetch loop
FetchPage ==
    /\ pc = "fetch"
    /\ calls' = Append(calls, ApiCall("List", <<opt.Page, opt.PerPage>>))
    /\ UNCHANGED <<numPRs, idx, prInfos, resp, clock, agg>>
    /\ \/ FetchFails
       \/ \E prs \in PageContents : \E next \in NextPages(prs) : FetchSucceeds(prs, next)

Trimmed_NoTrim(n, prs) == prs

\* lines 45-47
Trimmed(n, prs) == IF n > 0 /\ Len(prs) > n THEN SubSeq(prs, 1, n) ELSE prs

\* lines 44-50: trim, then call getMergeTimes
Trim ==
    /\ pc = "trim"
    /\ allPRs' = Trimmed(numPRs, allPRs)
    /\ pc' = "enrich"
    /\ UNCHANGED <<numPRs, opt, idx, prInfos, out, calls, pages, resp, clock, agg>>

(***************************************************************************)
(* Specifications.                                                         *)
(***************************************************************************)
\* the whole program, numPRs drawn from 0..MaxN
Init ==
    /\ pc = "fetch"
    /\ numPRs \in 0..MaxN
    /\ opt = getPullRequestListOptions(numPRs)
    /\ allPRs = <<>>
    /\ idx = 0
    /\ prInfos = <<>>
    /\ out = <<>>
    /\ calls = <<>>
    /\ pages = <<>>
    /\ resp = <<>>
    /\ clock = 0
    /\ agg = None

EnrichMain == GetMergeTimesIter(EnvMain)

Next == FetchPage \/ Trim \/ EnrichMain \/ GetMergeTimesReturn \/ printPRInfos

Spec == Init /\ [][Next]_vars

\* getMergeTimes and printPRInfos on a list of at most MaxPRs pull requests
InitEnrich ==
    /\ pc = "enrich"
    /\ numPRs = 0
    /\ opt = getPullRequestListOptions(0)
    /\ allPRs \in NumberedLists(ShapesEnrich, 0, MaxPRs)
    /\ idx = 0
    /\ prInfos = <<>>
    /\ out = <<>>
    /\ calls = <<>>
    /\ pages = <<>>
    /\ resp = <<>>
    /\ clock = 0
    /\ agg = None

EnrichList == GetMergeTimesIter(EnvEnrich)

NextEnrich == EnrichList \/ GetMergeTimesReturn \/ printPRInfos

SpecEnrich == InitEnrich /\ [][NextEnrich]_vars

\* getMergeTimes on one pull request with every comment list of at most MaxComments comments
InitRecord ==
    /\ pc = "enrich"
    /\ numPRs = 0
    /\ opt = getPullRequestListOptions(0)
    /\ allPRs \in {<<WithNumber(s, 1)>> : s \in ShapesRecord}
    /\ idx = 0
    /\ prInfos = <<>>
    /\ out = <<>>
    /\ calls = <<>>
    /\ pages = <<>>
    /\ resp = <<>>
    /\ clock = 0
    /\ agg = None

EnrichOne == GetMergeTimesIter(EnvRecord)

NextRecord == EnrichOne \/ GetMergeTimesReturn \/ printPRInfos

SpecRecord == InitRecord /\ [][NextRecord]_vars

(***************************************************************************)
(* Properties of getMergeTimes.                                            *)
(***************************************************************************)
\* the login ends in the bot marker
IsBot(login) == Len(login) >= 1 /\ login[Len(login)] = "[bot]"

\* the pull request has a creation instant and a merge instant
Merged(pr) == pr.CreatedAt >= 0 /\ pr.MergedAt >= 0

NumberAndCreator(s) == [i \in 1..Len(s) |-> <<s[i].Number, s[i].Creator>>]

NoFetchFailed == \A i \in 1..Len(resp) : resp[i].failed = "none"

\* the numbers of the pull requests among the first k that have both instants and
\* whose three fetches succeeded, in order
RECURSIVE Survivors(_)
Survivors(k) ==
    IF k = 0 THEN <<>>
    ELSE IF Merged(allPRs[k]) /\ resp[k].failed = "none"
         THEN Append(Survivors(k - 1), allPRs[k].Number)
         ELSE Survivors(k - 1)

\* C1: when no comments, commits or reviews fetch fails, getMergeTimes holds exactly
\* one record per consumed pull request that has both instants, in the order of the
\* input list, and none for a pull request lacking either instant.
C1_OneRecordPerMergedPR ==
    (pc \in {"enrich", "print", "done"} /\ NoFetchFailed) =>
        NumberAndCreator(prInfos) =
            NumberAndCreator(SelectSeq(SubSeq(allPRs, 1, idx), LAMBDA pr : Merged(pr)))

\* three pull requests, the second without creation instant, no fetch failed: two records
C1_Witness ==
    /\ pc = "done"
    /\ NoFetchFailed
    /\ Len(allPRs) = 3
    /\ allPRs[2].CreatedAt = NoTime /\ allPRs[2].MergedAt # NoTime
    /\ Merged(allPRs[1]) /\ Merged(allPRs[3])
    /\ Len(prInfos) = 2
    /\ prInfos[1].Number = 1 /\ prInfos[2].Number = 3

\* C2: a pull request one of whose fetches fails contributes no record, partial or
\* not, and the loop goes on: the records are exactly those of the pull requests with
\* both instants whose three fetches succeeded, each complete, and the loop only ends
\* when the whole list is consumed.
C2_FailedFetchSkipsOnlyThatPR ==
    /\ pc \in {"enrich", "print", "done"} =>
          /\ Len(resp) = idx
          /\ [i \in 1..Len(prInfos) |-> prInfos[i].Number] = Survivors(idx)
          /\ \A i \in 1..idx :
                resp[i].failed # "none" =>
                    \A j \in 1..Len(prInfos) : prInfos[j].Number # allPRs[i].Number
          /\ \A j \in 1..Len(prInfos) :
                \E i \in 1..idx :
                    /\ allPRs[i].Number = prInfos[j].Number
                    /\ resp[i].failed = "none"
                    /\ prInfos[j].Commits = resp[i].commits
                    /\ prInfos[j].MergeDayOfWeek # ""
    /\ pc \in {"print", "done"} => idx = Len(allPRs)

\* a fetch of the first pull request failed, and the record of a later one is there
C2_Witness ==
    /\ pc = "done"
    /\ Len(allPRs) = 3
    /\ \E i \in 1..2 :
          /\ resp[i].failed # "none"
          /\ \E j \in (i + 1)..3 :
                /\ resp[j].failed = "none" /\ ~resp[j].skipped
                /\ \E r \in 1..Len(prInfos) : prInfos[r].Number = allPRs[j].Number

\* the record built from the only pull request of the list, when its fetches succeeded
TheRecord == prInfos[1]
TheComments == resp[1].comments
RecordBuilt == Len(allPRs) = 1 /\ idx = 1 /\ Len(prInfos) = 1 /\ resp[1].failed = "none"

HumanComments == {k \in 1..Len(TheComments) : ~IsBot(TheComments[k].Login)}
FirstHumanComment == CHOOSE k \in HumanComments : \A j \in HumanComments : k <= j

\* C5: the first-responder fields are those of the first comment, the
\* first-human-responder fields those of the first comment whose login does not end
\* in "[bot]"; without comments all stay zero, with only bot comments the
\* first-human-responder fields stay zero.
C5_FirstResponders ==
    RecordBuilt =>
        /\ TheComments = <<>> =>
              /\ TheRecord.FirstResponder = <<>> /\ TheRecord.TimeToFirstResponse = 0
              /\ TheRecord.FirstResponseDayOfWeek = "" /\ TheRecord.FirstResponseTimeOfDay = ""
        /\ TheComments # <<>> =>
              /\ TheRecord.FirstResponder = TheComments[1].Login
              /\ TheRecord.TimeToFirstResponse = TheComments[1].CreatedAt - allPRs[1].CreatedAt
        /\ HumanComments = {} =>
              /\ TheRecord.FirstHumanResponder = <<>> /\ TheRecord.TimeToFirstHumanResponse = 0
              /\ TheRecord.FirstHumanResponseDayOfWeek = ""
              /\ TheRecord.FirstHumanResponseTimeOfDay = ""
        /\ HumanComments # {} =>
              /\ TheRecord.FirstHumanResponder = TheComments[FirstHumanComment].Login
              /\ TheRecord.TimeToFirstHumanResponse =
                    TheComments[FirstHumanComment].CreatedAt - allPRs[1].CreatedAt

\* comments by bot-x[bot] then alice: first responder bot-x[bot], first human alice
C5_Witness ==
    /\ RecordBuilt
    /\ Len(TheComments) = 2
    /\ TheComments[1] = Comment(botx, 35) /\ TheComments[2] = Comment(alice, 50)
    /\ allPRs[1].CreatedAt = 10
    /\ TheRecord.FirstResponder = botx /\ TheRecord.TimeToFirstResponse = 25
    /\ TheRecord.FirstHumanResponder = alice /\ TheRecord.TimeToFirstHumanResponse = 40

Occurrences(s, x) == Cardinality({i \in 1..Len(s) : s[i] = x})

\* C6 as stated: no login occurs twice in the Commenters of a record.
C6_NoDuplicateCommenter ==
    RecordBuilt =>
        \A i, j \in 1..Len(TheRecord.Commenters) :
            i # j => TheRecord.Commenters[i] # TheRecord.Commenters[j]

\* C6 as amended: a login occurs in the Commenters of a record as many times as the
\* account commented on the pull request when it is no bot, and never when it is.
C6_CommenterOncePerComment ==
    RecordBuilt =>
        \A l \in {TheComments[k].Login : k \in 1..Len(TheComments)} :
            Occurrences(TheRecord.Commenters, l) =
                IF IsBot(l) THEN 0
                ELSE Cardinality({k \in 1..Len(TheComments) : TheComments[k].Login = l})

\* alice commented twice and is twice among the commenters
C6_Witness ==
    /\ RecordBuilt
    /\ Cardinality({k \in 1..Len(TheComments) : TheComments[k].Login = alice}) = 2
    /\ Occurrences(TheRecord.Commenters, alice) = 2

\* C10: Commenters is the sequence of the logins of all comments whose login does
\* not end in "[bot]", in comment order, duplicates kept, the comments after the
\* first human one included.
C10_CommentersAreAllHumanComments ==
    RecordBuilt =>
        TheRecord.Commenters =
            LET humans == SelectSeq(TheComments, LAMBDA c : ~IsBot(c.Login))
            IN [i \in 1..Len(humans) |-> humans[i].Login]

\* a human comment, a bot comment, and a human comment after the scan has stopped
C10_Witness ==
    /\ RecordBuilt
    /\ Len(TheComments) = 3
    /\ TheComments[1].Login = bob /\ TheComments[2].Login = botx /\ TheComments[3].Login = alice
    /\ TheRecord.FirstHumanResponder = bob
    /\ TheRecord.Commenters = <<bob, alice>>

(***************************************************************************)
(* Properties of the fetch loop of main.                                   *)
(***************************************************************************)
\* the pull requests of the first k answers, in order
RECURSIVE Accumulated(_)
Accumulated(k) == IF k = 0 THEN <<>> ELSE Accumulated(k - 1) \o pages[k].prs

ListCalls == SelectSeq(calls, LAMBDA c : c.api = "List")

SomePageFailed == \E k \in 1..Len(pages) : pages[k].err

\* C3: once a page request has failed, on the first page or on a later one, the run
\* is over: no further page is requested, no comments, commits or reviews call is
\* made, and nothing but the error is printed, whatever was accumulated before.
C3_PageErrorIsFatal ==
    SomePageFailed =>
        /\ pc = "exit"
        /\ pages[Len(pages)].err
        /\ \A k \in 1..(Len(pages) - 1) : ~pages[k].err
        /\ Len(ListCalls) = Len(pages)
        /\ \A i \in 1..Len(calls) : calls[i].api = "List"
        /\ \A i \in 1..Len(out) : out[i].kind = "error" /\ out[i].what = "pull requests"
        /\ Len(out) = 1
        /\ prInfos = <<>>
        /\ ~ENABLED Next

\* the second page request failed after the first had brought pull requests
C3_Witness ==
    /\ pc = "exit"
    /\ Len(pages) >= 2
    /\ pages[Len(pages)].err
    /\ allPRs # <<>>
    /\ \E i \in 1..Len(allPRs) : Merged(allPRs[i])

\* the requests follow the answers: the first asks for page 0, each next one for the
\* NextPage of the answer before; the page size is min(100, N) for N > 0, else 100
RequestsFollowAnswers ==
    /\ Len(ListCalls) = Len(pages)
    /\ \A k \in 1..Len(ListCalls) :
          /\ ListCalls[k].arg[1] = (IF k = 1 THEN 0 ELSE pages[k - 1].NextPage)
          /\ ListCalls[k].arg[2] = (IF numPRs > 0 /\ numPRs < 100 THEN numPRs ELSE 100)

\* the answer k ends the loop: the target is reached or there is no next page
Stops(k) == (numPRs > 0 /\ Len(Accumulated(k)) >= numPRs) \/ pages[k].NextPage = 0

\* the loop ended at the first answer that stops it
StoppedAtFirstStop ==
    /\ \A k \in 1..(Len(pages) - 1) : ~pages[k].err /\ ~Stops(k)
    /\ pc \notin {"fetch", "exit"} =>
          Len(pages) >= 1 /\ ~pages[Len(pages)].err /\ Stops(Len(pages))
    /\ (pc = "fetch" /\ pages # <<>>) => ~Stops(Len(pages))

Enriching == pc \in {"enrich", "print", "done"}

\* C4 as stated: the list handed to the enricher has exactly N items when N > 0.
C4_ExactlyN ==
    (Enriching /\ numPRs > 0) => Len(allPRs) = numPRs

\* C4 as amended: pages are requested one after another, the loop ends at the first
\* answer with the target reached or no next page; for N > 0 the list handed to the
\* enricher is the first min(N, accumulated) accumulated items, never more than N,
\* and for N = 0 it is every item of every page.
C4_FetchLoopAndTrim ==
    /\ RequestsFollowAnswers
    /\ StoppedAtFirstStop
    /\ Enriching =>
          LET acc == Accumulated(Len(pages)) IN
          /\ numPRs = 0 => allPRs = acc
          /\ numPRs > 0 =>
                /\ Len(allPRs) <= numPRs
                /\ Len(allPRs) = (IF Len(acc) < numPRs THEN Len(acc) ELSE numPRs)
                /\ \A i \in 1..Len(allPRs) : allPRs[i] = acc[i]

\* two pages took the count over the target and the list was cut to the target
C4_Witness ==
    /\ Enriching
    /\ numPRs > 0
    /\ Len(pages) = 2
    /\ Len(Accumulated(2)) > numPRs
    /\ Len(allPRs) = numPRs

(***************************************************************************)
(* getDayOfWeekAndTimeOfDay applied to every hour of a week.               *)
(***************************************************************************)
Returned(fn, val) == [fn |-> fn, val |-> val]

InitBucket ==
    /\ pc = "bucket"
    /\ numPRs = 0
    /\ opt = getPullRequestListOptions(0)
    /\ allPRs = <<>>
    /\ idx = 0
    /\ prInfos = <<>>
    /\ out = <<>>
    /\ calls = <<>>
    /\ pages = <<>>
    /\ resp = <<>>
    /\ clock \in 0..MaxClock
    /\ agg = None

CallGetDayOfWeekAndTimeOfDay ==
    /\ pc = "bucket"
    /\ agg' = Returned("getDayOfWeekAndTimeOfDay", getDayOfWeekAndTimeOfDay(clock))
    /\ UNCHANGED <<pc, numPRs, opt, allPRs, idx, prInfos, out, calls, pages, resp, clock>>

NextBucket == CallGetDayOfWeekAndTimeOfDay

SpecBucket == InitBucket /\ [][NextBucket]_vars

UTCHour == clock - 24 * (clock \div 24)

\* C9: the time-of-day bucket depends on the UTC hour alone, low end inclusive and
\* high end exclusive: 0..5 first, 6..11 second, 12..16 third, 17..19 fourth,
\* 20..23 fifth; every hour falls in exactly one bucket.
C9_BucketOfHour ==
    agg.fn = "getDayOfWeekAndTimeOfDay" =>
        LET b == agg.val.timeOfDay IN
        /\ UTCHour \in 0..23
        /\ (UTCHour \in 0..5) <=> (b = "after midnight [UTC 00:00-06:00)")
        /\ (UTCHour \in 6..11) <=> (b = "morning [UTC 06:00-12:00)")
        /\ (UTCHour \in 12..16) <=> (b = "afternoon [UTC 12:00-17:00)")
        /\ (UTCHour \in 17..19) <=> (b = "evening [UTC 17:00-20:00)")
        /\ (UTCHour \in 20..23) <=> (b = "night [UTC 20:00-00:00)")
        /\ \A t \in 0..MaxClock :
              (t - clock) % 24 = 0 => getDayOfWeekAndTimeOfDay(t).timeOfDay = b

\* 06:00 of a day after the first is in the second bucket
C9_Witness ==
    /\ agg.fn = "getDayOfWeekAndTimeOfDay"
    /\ clock > 24
    /\ UTCHour = 6
    /\ agg.val.timeOfDay = "morning [UTC 06:00-12:00)"

(***************************************************************************)
(* The aggregates over prData.                                             *)
(***************************************************************************)
\* the loop  for _, pr := range prData { total += ... }
RECURSIVE Total(_)
Total(values) ==
    IF values = <<>> THEN 0
    ELSE Total(SubSeq(values, 1, Len(values) - 1)) + values[Len(values)]

\* Go's integer division truncates toward zero
GoDiv(a, b) == IF a >= 0 THEN a \div b ELSE -((-a) \div b)

\* a float64 quotient float64(num) / float64(den), kept exact
Float(num, den) == [num |-> num, den |-> den]

Durations(prData) == [i \in 1..Len(prData) |-> prData[i].Duration]
HumanLatencies(prData) == [i \in 1..Len(prData) |-> prData[i].TimeToFirstHumanResponse]
Latencies(prData) == [i \in 1..Len(prData) |-> prData[i].TimeToFirstResponse]
CommenterCounts(prData) == [i \in 1..Len(prData) |-> Len(prData[i].Commenters)]
ReviewerCounts(prData) == [i \in 1..Len(prData) |-> Len(prData[i].Reviewers)]
CommitCounts(prData) == [i \in 1..Len(prData) |-> prData[i].Commits]

\* lines 278-289
averageMergeTime(prData) ==
    IF Len(prData) = 0 THEN 0 ELSE GoDiv(Total(Durations(prData)), Len(prData))

averageFirstReponseHumanTime_OverResponded(prData) ==
    LET responded == SelectSeq(prData, LAMBDA r : r.FirstHumanResponder # <<>>) IN
    IF Len(responded) = 0 THEN 0
    ELSE GoDiv(Total(HumanLatencies(responded)), Len(responded))

\* lines 291-302
averageFirstReponseHumanTime(prData) ==
    IF Len(prData) = 0 THEN 0 ELSE GoDiv(Total(HumanLatencies(prData)), Len(prData))

\* lines 304-315
averageNumberOfComments(prData) ==
    IF Len(prData) = 0 THEN Float(0, 1) ELSE Float(Total(CommenterCounts(prData)), Len(prData))

\* lines 317-328
averageTimeToFirstBotResponse(prData) ==
    IF Len(prData) = 0 THEN 0 ELSE GoDiv(Total(Latencies(prData)), Len(prData))

\* lines 330-341
averageNumberOfReviewers(prData) ==
    IF Len(prData) = 0 THEN Float(0, 1) ELSE Float(Total(ReviewerCounts(prData)), Len(prData))

\* lines 343-354
averageNumberOfCommits(prData) ==
    IF Len(prData) = 0 THEN Float(0, 1) ELSE Float(Total(CommitCounts(prData)), Len(prData))

\* the map built by  m[key]++  over the keys in order
RECURSIVE Tally(_)
Tally(keys) ==
    IF keys = <<>> THEN [k \in {} |-> 0]
    ELSE LET m == Tally(SubSeq(keys, 1, Len(keys) - 1))
             key == keys[Len(keys)]
         IN IF key \in DOMAIN m THEN [m EXCEPT ![key] = @ + 1] ELSE m @@ (key :> 1)

\* the orders in which a range over the map m may visit its keys
IterationOrders(m) ==
    LET n == Cardinality(DOMAIN m) IN
    {o \in [1..n -> DOMAIN m] : \A i, j \in 1..n : i # j => o[i] # o[j]}

RECURSIVE MaxScan_MaxNotUpdated(_, _, _, _, _)
MaxScan_MaxNotUpdated(m, order, k, max, maxKey) ==
    IF k > Len(order) THEN maxKey
    ELSE IF m[order[k]] > max
         THEN MaxScan_MaxNotUpdated(m, order, k + 1, max, order[k])
         ELSE MaxScan_MaxNotUpdated(m, order, k + 1, max, maxKey)

\* the loop  for key, count := range m { if count > max { max = count; maxKey = key } }
\* visiting the keys in the given order, from its k-th key on
RECURSIVE MaxScan(_, _, _, _, _)
MaxScan(m, order, k, max, maxKey) ==
    IF k > Len(order) THEN maxKey
    ELSE IF m[order[k]] > max
         THEN MaxScan(m, order, k + 1, m[order[k]], order[k])
         ELSE MaxScan(m, order, k + 1, max, maxKey)

\* the values the tally-and-scan may return for the keys counted, zero being the
\* initial value of the result
MostFrequent(keys, zero) ==
    LET m == Tally(keys) IN {MaxScan(m, o, 1, 0, zero) : o \in IterationOrders(m)}

RECURSIVE Flatten(_)
Flatten(lists) ==
    IF lists = <<>> THEN <<>>
    ELSE Flatten(SubSeq(lists, 1, Len(lists) - 1)) \o lists[Len(lists)]

WithHumanResponse(prData) == SelectSeq(prData, LAMBDA r : r.FirstHumanResponder # <<>>)

\* lines 356-376
dayWithMostPRsCreated(prData) ==
    IF Len(prData) = 0 THEN {""}
    ELSE MostFrequent([i \in 1..Len(prData) |-> prData[i].CreationDayOfWeek], "")

\* lines 378-398
timeOfTheDayWithMostPRsCreated(prData) ==
    IF Len(prData) = 0 THEN {""}
    ELSE MostFrequent([i \in 1..Len(prData) |-> prData[i].CreationTimeOfDay], "")

\* lines 400-420
dayMostPRsMerged(prData) ==
    IF Len(prData) = 0 THEN {""}
    ELSE MostFrequent([i \in 1..Len(prData) |-> prData[i].MergeDayOfWeek], "")

\* lines 422-442
timeOfTheDayWithMostPRsMerged(prData) ==
    IF Len(prData) = 0 THEN {""}
    ELSE MostFrequent([i \in 1..Len(prData) |-> prData[i].MergeTimeOfDay], "")

\* lines 444-466
dayOfTheWeekWithMostFirstHumanResponses(prData) ==
    IF Len(prData) = 0 THEN {""}
    ELSE LET h == WithHumanResponse(prData) IN
         MostFrequent([i \in 1..Len(h) |-> h[i].FirstHumanResponseDayOfWeek], "")

\* lines 468-490
timeOfTheDayWithMostFirstHumanResponses(prData) ==
    IF Len(prData) = 0 THEN {""}
    ELSE LET h == WithHumanResponse(prData) IN
         MostFrequent([i \in 1..Len(h) |-> h[i].FirstHumanResponseTimeOfDay], "")

\* lines 516-536
dayOfTheWeekWithMostPRReviews(prData) ==
    IF Len(prData) = 0 THEN {""}
    ELSE MostFrequent([i \in 1..Len(prData) |-> prData[i].FirstResponseDayOfWeek], "")

\* lines 538-558
timeOfTheDayWithMostPRReviews(prData) ==
    IF Len(prData) = 0 THEN {""}
    ELSE MostFrequent([i \in 1..Len(prData) |-> prData[i].FirstResponseTimeOfDay], "")

\* lines 580-602
getTopReviewer(prData) ==
    IF Len(prData) = 0 THEN {<<>>}
    ELSE MostFrequent(Flatten([i \in 1..Len(prData) |-> prData[i].Reviewers]), <<>>)

\* lines 604-626
getTopCommenter(prData) ==
    IF Len(prData) = 0 THEN {<<>>}
    ELSE MostFrequent(Flatten([i \in 1..Len(prData) |-> prData[i].Commenters]), <<>>)

\* lines 628-648
getTopCreator(prData) ==
    IF Len(prData) = 0 THEN {<<>>}
    ELSE MostFrequent([i \in 1..Len(prData) |-> prData[i].Creator], <<>>)

\* lines 650-672
getTopFirstHumanResponder(prData) ==
    IF Len(prData) = 0 THEN {<<>>}
    ELSE LET h == WithHumanResponse(prData) IN
         MostFrequent([i \in 1..Len(h) |-> h[i].FirstHumanResponder], <<>>)

\* lines 674-694
getTopFirstResponder(prData) ==
    IF Len(prData) = 0 THEN {<<>>}
    ELSE MostFrequent([i \in 1..Len(prData) |-> prData[i].FirstResponder], <<>>)

\* lines 696-716: counts pr.Creator
getTopMerger(prData) ==
    IF Len(prData) = 0 THEN {<<>>}
    ELSE MostFrequent([i \in 1..Len(prData) |-> prData[i].Creator], <<>>)

MeanNames ==
    {"averageMergeTime", "averageFirstReponseHumanTime", "averageTimeToFirstBotResponse",
     "averageNumberOfComments", "averageNumberOfReviewers", "averageNumberOfCommits"}

ModeNames ==
    {"dayWithMostPRsCreated", "timeOfTheDayWithMostPRsCreated", "dayMostPRsMerged",
     "timeOfTheDayWithMostPRsMerged", "dayOfTheWeekWithMostFirstHumanResponses",
     "timeOfTheDayWithMostFirstHumanResponses", "dayOfTheWeekWithMostPRReviews",
     "timeOfTheDayWithMostPRReviews", "getTopReviewer", "getTopCommenter", "getTopCreator",
     "getTopFirstHumanResponder", "getTopFirstResponder", "getTopMerger"}

\* the value the named mean returns
MeanOf(fn, prData) ==
    CASE fn = "averageMergeTime" -> averageMergeTime(prData)
      [] fn = "averageFirstReponseHumanTime" -> averageFirstReponseHumanTime(prData)
      [] fn = "averageTimeToFirstBotResponse" -> averageTimeToFirstBotResponse(prData)
      [] fn = "averageNumberOfComments" -> averageNumberOfComments(prData)
      [] fn = "averageNumberOfReviewers" -> averageNumberOfReviewers(prData)
      [] fn = "averageNumberOfCommits" -> averageNumberOfCommits(prData)

\* the values the named mode may return
ModeOf(fn, prData) ==
    CASE fn = "dayWithMostPRsCreated" -> dayWithMostPRsCreated(prData)
      [] fn = "timeOfTheDayWithMostPRsCreated" -> timeOfTheDayWithMostPRsCreated(prData)
      [] fn = "dayMostPRsMerged" -> dayMostPRsMerged(prData)
      [] fn = "timeOfTheDayWithMostPRsMerged" -> timeOfTheDayWithMostPRsMerged(prData)
      [] fn = "dayOfTheWeekWithMostFirstHumanResponses" -> dayOfTheWeekWithMostFirstHumanResponses(prData)
      [] fn = "timeOfTheDayWithMostFirstHumanResponses" -> timeOfTheDayWithMostFirstHumanResponses(prData)
      [] fn = "dayOfTheWeekWithMostPRReviews" -> dayOfTheWeekWithMostPRReviews(prData)
      [] fn = "timeOfTheDayWithMostPRReviews" -> timeOfTheDayWithMostPRReviews(prData)
      [] fn = "getTopReviewer" -> getTopReviewer(prData)
      [] fn = "getTopCommenter" -> getTopCommenter(prData)
      [] fn = "getTopCreator" -> getTopCreator(prData)
      [] fn = "getTopFirstHumanResponder" -> getTopFirstHumanResponder(prData)
      [] fn = "getTopFirstResponder" -> getTopFirstResponder(prData)
      [] fn = "getTopMerger" -> getTopMerger(prData)

\* records as getMergeTimes builds them
SamplePRInfos ==
    {BuildPRInfo(PullRequest(1, alice, 10, 30), <<Comment(botx, 11), Comment(bob, 13)>>, 1,
                 <<Review(bob)>>),
     BuildPRInfo(PullRequest(2, alice, 34, 80), <<>>, 2, <<>>),
     BuildPRInfo(PullRequest(3, bob, 10, 61), <<Comment(botx, 40)>>, 3,
                 <<Review(alice), Review(alice)>>),
     BuildPRInfo(PullRequest(4, bob, 50, 100),
                 <<Comment(alice, 55), Comment(alice, 60), Comment(bob, 70)>>, 1,
                 <<Review(alice), Review(botx)>>),
     BuildPRInfo(PullRequest(5, alice, 100, 107), <<Comment(bob, 106)>>, 5, <<Review(bob)>>)}

InitAggregate ==
    /\ pc = "aggregate"
    /\ numPRs = 0
    /\ opt = getPullRequestListOptions(0)
    /\ allPRs = <<>>
    /\ idx = 0
    /\ prInfos \in SeqsUpTo(SamplePRInfos, MaxRecords)
    /\ out = <<>>
    /\ calls = <<>>
    /\ pages = <<>>
    /\ resp = <<>>
    /\ clock = 0
    /\ agg = None

CallMean ==
    /\ pc = "aggregate"
    /\ \E fn \in MeanNames : agg' = Returned(fn, MeanOf(fn, prInfos))
    /\ UNCHANGED <<pc, numPRs, opt, allPRs, idx, prInfos, out, calls, pages, resp, clock>>

CallMode ==
    /\ pc = "aggregate"
    /\ \E fn \in ModeNames : \E v \in ModeOf(fn, prInfos) : agg' = Returned(fn, v)
    /\ UNCHANGED <<pc, numPRs, opt, allPRs, idx, prInfos, out, calls, pages, resp, clock>>

NextAggregate == CallMean \/ CallMode

SpecAggregate == InitAggregate /\ [][NextAggregate]_vars

(***************************************************************************)
(* Properties of the aggregates.                                           *)
(***************************************************************************)
\* the field a mean is taken of
FieldOf(fn, r) ==
    CASE fn = "averageMergeTime" -> r.Duration
      [] fn = "averageFirstReponseHumanTime" -> r.TimeToFirstHumanResponse
      [] fn = "averageTimeToFirstBotResponse" -> r.TimeToFirstResponse
      [] fn = "averageNumberOfComments" -> Len(r.Commenters)
      [] fn = "averageNumberOfReviewers" -> Len(r.Reviewers)
      [] fn = "averageNumberOfCommits" -> r.Commits

\* the sum of the field over the records from the k-th on
RECURSIVE FieldSum(_, _)
FieldSum(fn, k) ==
    IF k > Len(prInfos) THEN 0 ELSE FieldOf(fn, prInfos[k]) + FieldSum(fn, k + 1)

DurationMeans == {"averageMergeTime", "averageFirstReponseHumanTime", "averageTimeToFirstBotResponse"}

\* C7: each mean is the sum of its field over all records divided by the number of
\* all records (a record without response counting with latency zero), by integer
\* division for the durations, and zero for the empty list.
C7_MeanIsSumOverCount ==
    agg.fn \in MeanNames =>
        LET n == Len(prInfos)
            sum == FieldSum(agg.fn, 1)
        IN IF agg.fn \in DurationMeans
           THEN /\ n = 0 => agg.val = 0
                /\ n > 0 => /\ sum >= 0
                            /\ agg.val * n <= sum
                            /\ sum < (agg.val + 1) * n
           ELSE /\ agg.val.den > 0
                /\ n = 0 => agg.val.num = 0
                /\ n > 0 => agg.val.num * n = sum * agg.val.den

\* three records, one without human response: its zero latency is in the mean, and
\* the division leaves a remainder
C7_Witness ==
    /\ agg.fn = "averageFirstReponseHumanTime"
    /\ Len(prInfos) = 3
    /\ \E i \in 1..3 : prInfos[i].FirstHumanResponder = <<>>
    /\ \E i \in 1..3 : prInfos[i].FirstHumanResponder # <<>>
    /\ agg.val > 0
    /\ agg.val * 3 < FieldSum("averageFirstReponseHumanTime", 1)

\* the values a mode counts, one entry per count
Counted(fn, prData) ==
    LET all == 1..Len(prData)
        human == SelectSeq(prData, LAMBDA r : r.FirstHumanResponder # <<>>)
    IN CASE fn = "dayWithMostPRsCreated" -> [i \in all |-> prData[i].CreationDayOfWeek]
         [] fn = "timeOfTheDayWithMostPRsCreated" -> [i \in all |-> prData[i].CreationTimeOfDay]
         [] fn = "dayMostPRsMerged" -> [i \in all |-> prData[i].MergeDayOfWeek]
         [] fn = "timeOfTheDayWithMostPRsMerged" -> [i \in all |-> prData[i].MergeTimeOfDay]
         [] fn = "dayOfTheWeekWithMostFirstHumanResponses" ->
                [i \in 1..Len(human) |-> human[i].FirstHumanResponseDayOfWeek]
         [] fn = "timeOfTheDayWithMostFirstHumanResponses" ->
                [i \in 1..Len(human) |-> human[i].FirstHumanResponseTimeOfDay]
         [] fn = "dayOfTheWeekWithMostPRReviews" -> [i \in all |-> prData[i].FirstResponseDayOfWeek]
         [] fn = "timeOfTheDayWithMostPRReviews" -> [i \in all |-> prData[i].FirstResponseTimeOfDay]
         [] fn = "getTopReviewer" -> Flatten([i \in all |-> prData[i].Reviewers])
         [] fn = "getTopCommenter" -> Flatten([i \in all |-> prData[i].Commenters])
         [] fn = "getTopCreator" -> [i \in all |-> prData[i].Creator]
         [] fn = "getTopFirstHumanResponder" -> [i \in 1..Len(human) |-> human[i].FirstHumanResponder]
         [] fn = "getTopFirstResponder" -> [i \in all |-> prData[i].FirstResponder]
         [] fn = "getTopMerger" -> [i \in all |-> prData[i].Creator]

\* the zero value of the result type: a login or a day or time-of-day name
ZeroOf(fn) ==
    IF fn \in {"getTopReviewer", "getTopCommenter", "getTopCreator",
               "getTopFirstHumanResponder", "getTopFirstResponder", "getTopMerger"}
    THEN <<>> ELSE ""

ListPermutations(n) == {p \in [1..n -> 1..n] : \A i, j \in 1..n : i # j => p[i] # p[j]}

Permuted(s, p) == [i \in 1..Len(s) |-> s[p[i]]]

\* C8: a mode returns a value whose count is maximal among the values it counts (its
\* zero value when it counts none), the values it may return are the same for every
\* permutation of the list, the first-human-response modes count only the records
\* with a first human responder, and the top creator of two records with one
\* creator is that creator.
C8_ModeIsMaximalAndOrderIndependent ==
    agg.fn \in ModeNames =>
        LET keys == Counted(agg.fn, prInfos) IN
        /\ \A i \in 1..Len(keys) : Occurrences(keys, agg.val) >= Occurrences(keys, keys[i])
        /\ keys # <<>> => \E i \in 1..Len(keys) : keys[i] = agg.val
        /\ keys = <<>> => agg.val = ZeroOf(agg.fn)
        /\ \A p \in ListPermutations(Len(prInfos)) :
              ModeOf(agg.fn, Permuted(prInfos, p)) = ModeOf(agg.fn, prInfos)
        /\ (agg.fn = "getTopCreator" /\ Len(prInfos) = 2
              /\ prInfos[1].Creator = prInfos[2].Creator) => agg.val = prInfos[1].Creator

\* bob created the first record, alice the next two: the top creator is alice
C8_Witness ==
    /\ agg.fn = "getTopCreator"
    /\ Len(prInfos) = 3
    /\ prInfos[1].Creator = bob /\ prInfos[2].Creator = alice /\ prInfos[3].Creator = alice
    /\ agg.val = alice
====
